---- MODULE Spec2Model ----
(***************************************************************************)
(* Session / event-relay layer of Dwarf (lib/core.py): the Dwarf object's  *)
(* lifecycle fields, hook / watcher registries, context store, the         *)
(* dwarf_api gateway and the _on_message dispatcher; and the memory region *)
(* cache (lib/range.py).                                                   *)
(***************************************************************************)
EXTENDS Integers, Sequences, FiniteSets, TLC

(***************************************************************************)
(* Bounds of the model.                                                    *)
(***************************************************************************)
\* thread ids reported by the target are 1..MaxTid
MaxTid == 2
\* processes known to the engine are 1..MaxPid
MaxPid == 2

Tids == 1..MaxTid
Pids == 1..MaxPid

\* names used as java / on-load hook keys, and pointer texts used as
\* native hook / watcher keys
Names == {"a"}
PtrTexts == {"0x10"}

\* the api names dwarf_api is called with
ApiNames == {"release", "readBytes"}

\* values of the initial handshake (arch, platform, pointerSize, java)
Infos == {[arch |-> "arm64", platform |-> "linux", pointer_size |-> 8, java |-> FALSE], [arch |-> "ia32", platform |-> "windows", pointer_size |-> 4, java |-> TRUE]}
NoInfo == [arch |-> "", platform |-> "", pointer_size |-> 0, java |-> FALSE]

\* pending condition / logic staged by a hook request (None or a dict)
NoArgs == [condition |-> "", logic |-> ""]
SomeArgs == [condition |-> "c1", logic |-> "l1"]

VARIABLES device, process, script, pid, spawned, resumed, hooks, native_on_loads, java_on_loads, java_hooks, watchers, temporary_input, native_pending_args, java_pending_args, info, contexts, context_tid, range, broadcast, last, out, raised, ret

lifecycle == <<device, process, script, pid, spawned, resumed>>
registries == <<hooks, native_on_loads, java_on_loads, java_hooks, watchers>>
staged == <<temporary_input, native_pending_args, java_pending_args>>
ctxvars == <<contexts, context_tid>>
ghost == <<last, out, raised, ret>>
vars == <<device, process, script, pid, spawned, resumed, hooks, native_on_loads, java_on_loads, java_hooks, watchers, temporary_input, native_pending_args, java_pending_args, info, contexts, context_tid, range, broadcast, last, out, raised, ret>>

(***************************************************************************)
(* Conversions.                                                            *)
(***************************************************************************)
\* str(tid): the decimal text of a thread id
Str(n) == ToString(n)

\* int(text) of a decimal text
ToInt(s) == CHOOSE n \in 0..(MaxTid + 2) : ToString(n) = s

\* int(text, 16) of a pointer text "0x.."
Int16(s) == CASE s = "0x10" -> 16 [] s = "0x11" -> 17 [] s = "0x2" -> 2 [] s = "0x6" -> 6 [] OTHER -> 0

\* hex(n)
Hex(n) == CASE n = 16 -> "0x10" [] n = 17 -> "0x11" [] OTHER -> "0x0"

\* utils.parse_ptr(text): a "0x" text is read base 16, anything that is
\* not a number is 0
ParsePtr(s) == IF s \in {"0x10", "0x11"} THEN Int16(s) ELSE 0

\* the sequence s without the element x
RECURSIVE Without(_, _)
Without(s, x) == IF s = <<>> THEN <<>> ELSE IF Head(s) = x THEN Without(Tail(s), x) ELSE <<Head(s)>> \o Without(Tail(s), x)

Elems(s) == {s[i] : i \in 1..Len(s)}

(***************************************************************************)
(* What an operation lets the outside see, in order: events published to   *)
(* the listeners, routing notifications and api invocations sent to the    *)
(* payload, calls made to the engine.                                      *)
(***************************************************************************)
Ev(name, tid, arg) == [k |-> "event", name |-> name, tid |-> tid, arg |-> arg]
\* script.post({"type": text})
Post(text) == [k |-> "post", name |-> "route", tid |-> ToInt(text), arg |-> text]
\* script.exports.api(tid, api, args); form tells whether tid was passed as
\* an int or as the text key of the context store
Api(tid, api, form) == [k |-> "api", name |-> api, tid |-> tid, arg |-> form]
Eng(name, p) == [k |-> "engine", name |-> name, tid |-> p, arg |-> ""]
\* a send that raised
Failed(e) == [e EXCEPT !.k = "failed"]
LogError == Ev("onLogEvent", 0, "error")

\* the fields of the object an operation works on, with what it has let
\* the outside see so far, whether it raised and what it returned
Cur == [device |-> device, process |-> process, script |-> script, pid |-> pid, spawned |-> spawned, resumed |-> resumed, out |-> <<>>, raised |-> FALSE, ret |-> "None"]

Emit(L, es) == [L EXCEPT !.out = @ \o es]

Raise(L) == [L EXCEPT !.raised = TRUE, !.ret = "raise"]

(***************************************************************************)
(* dwarf_api: the gateway to the payload.                                  *)
(***************************************************************************)
\* the most sends one call can make
MaxSends == 2 * MaxTid + 1

\* tid 0 means the active thread, but not for release
ResolveTid(api, tid) == IF api # "release" /\ tid = 0 THEN context_tid ELSE tid

\* a loop that stops after the first key
LoopFirstOnly(keys, rel) == IF keys = <<>> THEN <<>> ELSE <<Post(Head(keys))>> \o (IF rel THEN <<Api(ToInt(Head(keys)), "release", "int")>> ELSE <<>>)

\* the for loop over list(self.contexts.keys()): a routing notification
\* per key, each followed by the release invocation when releasing
RECURSIVE LoopSends(_, _)
LoopSends(keys, rel) == IF keys = <<>> THEN <<>> ELSE <<Post(Head(keys))>> \o (IF rel THEN <<Api(ToInt(Head(keys)), "release", "int")>> ELSE <<>>) \o LoopSends(Tail(keys), rel)

\* after the loop the variable tid holds the last key, a text, or still 0
AfterLoop(api) == IF contexts = <<>> THEN Api(0, api, "int") ELSE Api(ToInt(contexts[Len(contexts)]), api, "str")

\* a try block that invokes a given thread without notifying it
ApiPlanNoRoute(api, tid) ==
    LET rel == api = "release"
        t1 == ResolveTid(api, tid)
    IN  IF t1 = 0
        THEN LoopSends(contexts, rel) \o (IF rel THEN <<>> ELSE <<AfterLoop(api)>>)
        ELSE <<Api(t1, api, "int")>>

\* what the try block sends when nothing raises
ApiPlan(api, tid) ==
    LET rel == api = "release"
        t1 == ResolveTid(api, tid)
    IN  IF t1 = 0
        THEN LoopSends(contexts, rel) \o (IF rel THEN <<>> ELSE <<AfterLoop(api)>>)
        ELSE <<Post(Str(t1)), Api(t1, api, "int")>>

\* what the call returns when nothing raises
ApiReturn(api, tid) == IF api = "release" /\ ResolveTid(api, tid) = 0 THEN "None" ELSE "value"

\* an except clause that lets the error through
ApiExceptRaises(L, done, bad) == Raise([L EXCEPT !.out = @ \o done \o <<Failed(bad)>>])

\* the except clause: the error is logged as an event, None is returned
ApiExcept(L, done, bad) == [L EXCEPT !.out = @ \o done \o <<Failed(bad), LogError>>, !.ret = "None"]

\* dwarf_api(api, args, tid) where the f-th send raises (none when f is 0
\* or beyond the last send); a script that was unloaded raises at once
ApiF(L, api, tid, f) ==
    IF (L.pid # 0 /\ L.pid = 0) \/ L.process = 0 THEN [L EXCEPT !.ret = "None"]
    ELSE IF L.script = "none" THEN [L EXCEPT !.ret = "None"]
    ELSE LET plan == ApiPlan(api, tid)
             ff == IF L.script = "loaded" THEN f ELSE 1
         IN  IF ff = 0 \/ ff > Len(plan)
             THEN [L EXCEPT !.out = @ \o plan, !.ret = ApiReturn(api, tid)]
             ELSE ApiExcept(L, SubSeq(plan, 1, ff - 1), plan[ff])

(***************************************************************************)
(* Lifecycle: resume_proc, detach, load_script, attach, spawn.             *)
(***************************************************************************)
\* resume_proc(): the engine's "already resumed" error is swallowed
ResumeProcF(L) ==
    IF L.spawned /\ ~L.resumed
    THEN [L EXCEPT !.resumed = TRUE, !.out = @ \o <<Eng("resume", L.pid)>>]
    ELSE L

\* what the engine answers to device.kill
KillAnswers == {"ok", "notfound", "error"}

\* a kill that swallows no error
KillNotSwallowed(L, k) == IF k = "ok" THEN Emit(L, <<Eng("kill", L.pid)>>) ELSE Raise(Emit(L, <<Failed(Eng("kill", L.pid))>>))

\* try: self.device.kill(self.pid) except frida.ProcessNotFoundError: pass
KillF(L, k) ==
    IF k = "ok" THEN Emit(L, <<Eng("kill", L.pid)>>)
    ELSE IF k = "notfound" THEN Emit(L, <<Failed(Eng("kill", L.pid))>>)
    ELSE Raise(Emit(L, <<Failed(Eng("kill", L.pid))>>))

\* detach(): neither _process nor _script is cleared here; k is the answer
\* of the engine to the kill
DetachF(L, f, k) ==
    LET L1 == IF L.script # "none"
              THEN [ApiF(L, "_detach", 0, f) EXCEPT !.out = @ \o <<Eng("unload", L.pid)>>, !.script = "unloaded", !.ret = "None"]
              ELSE L
        L2 == IF L1.process # 0 THEN Emit(L1, <<Eng("detach", L1.process)>>) ELSE L1
    IN  IF L1.process # 0 /\ L1.spawned THEN KillF(L2, k) ELSE L2

\* the handler after the except clauses: a message box, then the call of
\* self._on_destroyed(), a method the class does not define
LoadError(L) == Raise(Emit(L, <<Ev("message_box", 0, "error")>>))

\* load_script(script, spawned): fail names what goes wrong, "ok" nothing;
\* user tells whether a user script is given and exists; g is the failing
\* send of its evaluation
LoadScriptF(L, sp, user, g, fail) ==
    IF fail = "nocore" THEN Raise(L)
    ELSE IF fail = "create_script" THEN LoadError(L)
    ELSE LET L1 == [L EXCEPT !.script = "loaded", !.out = @ \o <<Eng("create_script", L.pid)>>]
         IN  IF fail = "load" THEN LoadError([L1 EXCEPT !.script = "unloaded"])
             ELSE LET L2 == Emit(L1, <<Eng("load", L.pid)>>)
                  IN  IF fail = "init" THEN LoadError(L2)
                      ELSE LET L3 == Emit(L2, <<Eng("init", IF sp THEN 1 ELSE 0)>>)
                               L4 == IF user THEN ApiF(L3, "evaluateFunction", 0, g) ELSE L3
                               L5 == ResumeProcF(L4)
                           IN  [L5 EXCEPT !.out = @ \o <<Ev("onScriptLoaded", 0, ""), Ev("plugins", L5.pid, "")>>, !.ret = "0"]

\* what can go wrong in attach / spawn
AttachFails == {"ok", "attach", "nocore", "create_script", "load", "init"}
SpawnFails == AttachFails \cup {"spawn"}

\* the return value of load_script is dropped by attach and spawn
Dropped(L) == IF L.raised THEN L ELSE [L EXCEPT !.ret = "None"]

\* attach([p, name], script)
AttachF(L, p, user, f, g, fail) ==
    IF L.device = "none" THEN Raise(L)
    ELSE LET L1 == IF L.process # 0 THEN DetachF(L, f, "ok") ELSE L
         IN  IF fail = "attach" THEN Raise(Emit(L1, <<Failed(Eng("attach", p))>>))
             ELSE LET L2 == [L1 EXCEPT !.process = p, !.pid = p, !.out = @ \o <<Eng("attach", p), Ev("onProcessAttached", p, "")>>]
                  IN  Dropped(LoadScriptF(L2, FALSE, user, g, fail))

\* spawn(package, script): the engine creates process p suspended
SpawnF(L, p, user, f, g, fail) ==
    IF L.device = "none" THEN Raise(L)
    ELSE LET L1 == IF L.process # 0 THEN DetachF(L, f, "ok") ELSE L
         IN  IF fail = "spawn" THEN Raise(Emit(L1, <<Failed(Eng("spawn", p))>>))
             ELSE LET L2 == [L1 EXCEPT !.pid = p, !.out = @ \o <<Eng("spawn", p)>>]
                  IN  IF fail = "attach" THEN Raise(Emit(L2, <<Failed(Eng("attach", p))>>))
                      ELSE LET L3 == [L2 EXCEPT !.process = p, !.spawned = TRUE, !.out = @ \o <<Eng("attach", p), Ev("onProcessAttached", p, "")>>]
                           IN  Dropped(LoadScriptF(L3, TRUE, user, g, fail))

(***************************************************************************)
(* Messages of the payload: message['payload'] split on ':::'. env tells   *)
(* whether the message has a payload at all, n is len(parts), tag is       *)
(* parts[0]; the other fields are what the tag's handler reads from parts. *)
(***************************************************************************)
Base(tag, n) == [env |-> TRUE, tag |-> tag, n |-> n, kind |-> "", key |-> "", tid |-> 0, reason |-> 0, hasctx |-> FALSE, internal |-> FALSE, info |-> NoInfo, subs |-> FALSE]

\* the tags of the if / elif chain
KnownTags == {"api_ping_timeout", "backtrace", "class_loader_loading_class", "enumerate_java_classes_start", "enumerate_java_classes_match", "enumerate_java_classes_complete", "enumerate_java_methods_complete", "ftrace", "enable_kernel", "hook_java_callback", "hook_java_on_load_callback", "hook_native_callback", "hook_native_on_load_callback", "hook_deleted", "java_on_load_callback", "java_trace", "log", "native_on_load_callback", "native_on_load_module_loading", "new_thread", "release", "resume", "release_js", "set_context", "set_context_value", "set_data", "unhandled_exception", "update_modules", "update_ranges", "watcher", "watcher_added", "watcher_removed", "memoryscan_result"}

\* the reason of the handshake after attach, and of a hook hit
ReasonInitial == -1
ReasonHook == 0
HitReasons == {0, 1}

MsgNoPayload == {[Base("", 0) EXCEPT !.env = FALSE]}
MsgShort == {Base("log", 1), Base("foo", 1)}
MsgUnknown == {Base("foo", 2), Base("foo", 3)}
MsgLog == {Base("log", 2)}
MsgNewThread == {[Base("new_thread", n) EXCEPT !.tid = t] : n \in {2, 3}, t \in {1}}
MsgRelease == {[Base("release", 2) EXCEPT !.key = Str(t)] : t \in Tids}
MsgReleaseJs == {[Base("release_js", 2) EXCEPT !.key = Str(t)] : t \in Tids}
MsgResume == {Base("resume", 2)}
\* the handshake; one that also carries a context names its thread
MsgInitial == {[Base("set_context", 2) EXCEPT !.reason = ReasonInitial, !.info = i, !.subs = b, !.hasctx = c, !.tid = IF c THEN 1 ELSE 0] : i \in Infos, b \in BOOLEAN, c \in BOOLEAN}
MsgHit == {[Base("set_context", 2) EXCEPT !.reason = r, !.tid = t, !.hasctx = c] : r \in HitReasons, t \in Tids, c \in BOOLEAN}

\* the operation that acted last, for the properties to name it
Op(op, m, api, tid) == [op |-> op, m |-> m, api |-> api, tid |-> tid]
NoMsg == Base("", 0)
Idle == last.op = "idle"

Commit(L) ==
    /\ device' = L.device
    /\ process' = L.process
    /\ script' = L.script
    /\ pid' = L.pid
    /\ spawned' = L.spawned
    /\ resumed' = L.resumed
    /\ out' = L.out
    /\ raised' = L.raised
    /\ ret' = L.ret

(***************************************************************************)
(* The context store: a dict keyed by str(tid), in insertion order.        *)
(***************************************************************************)
\* self.contexts[key] = context
StoreContext(ctxs, key) == IF key \in Elems(ctxs) THEN ctxs ELSE Append(ctxs, key)

\* a release that empties the store
ReleaseEveryContext(ctxs, key) == <<>>

\* if key in self.contexts: del self.contexts[key]
ReleaseContext(ctxs, key) == IF key \in Elems(ctxs) THEN Without(ctxs, key) ELSE ctxs

\* current_context(): the context stored under str(self.context_tid), or
\* None
CurrentContext == IF Str(context_tid) \in Elems(contexts) THEN Str(context_tid) ELSE "None"

\* an active thread that follows the latest hit
LatestHit(ctid, reason, tid) == IF reason # ReasonInitial THEN tid ELSE ctid

\* if not reason == -1 and self.context_tid == 0: self.context_tid = tid
FirstHit(ctid, reason, tid) == IF reason # ReasonInitial /\ ctid = 0 THEN tid ELSE ctid

\* the context store after the dispatch of m: a release deletes the key
\* parts[1], a set_context that carries a context stores it under str(tid)
ContextsAfter(ctxs, m) ==
    IF m.tag = "release" THEN ReleaseContext(ctxs, m.key)
    ELSE IF m.tag = "set_context" /\ m.reason # ReasonInitial /\ m.hasctx THEN StoreContext(ctxs, Str(m.tid))
    ELSE ctxs

(***************************************************************************)
(* _on_message, one action per branch.                                     *)
(***************************************************************************)
\* no payload, or fewer than 2 parts: printed and dropped
OnDropped(m) ==
    /\ Idle
    /\ ~m.env \/ m.n < 2
    /\ last' = Op("msg", m, "", 0)
    /\ Commit(Cur)
    /\ UNCHANGED <<registries, staged, info, ctxvars>>
    /\ UNCHANGED range
    /\ UNCHANGED broadcast

\* a final else that raises
OnUnknownRaises(m) ==
    /\ Idle
    /\ m.env /\ m.n >= 2 /\ m.tag \notin KnownTags
    /\ last' = Op("msg", m, "", 0)
    /\ Commit(Raise(Cur))
    /\ UNCHANGED <<registries, staged, info, ctxvars>>
    /\ UNCHANGED range
    /\ UNCHANGED broadcast

\* the final else: printed
OnUnknown(m) ==
    /\ Idle
    /\ m.env /\ m.n >= 2 /\ m.tag \notin KnownTags
    /\ last' = Op("msg", m, "", 0)
    /\ Commit(Cur)
    /\ UNCHANGED <<registries, staged, info, ctxvars>>
    /\ UNCHANGED range
    /\ UNCHANGED broadcast

OnLog(m) ==
    /\ Idle
    /\ m.env /\ m.n >= 2 /\ m.tag = "log"
    /\ last' = Op("msg", m, "", 0)
    /\ Commit(Emit(Cur, <<Ev("onLogToConsole", 0, "")>>))
    /\ UNCHANGED <<registries, staged, info, ctxvars>>
    /\ UNCHANGED range
    /\ UNCHANGED broadcast

\* reads parts[1] and parts[2]
OnNewThread(m) ==
    /\ Idle
    /\ m.env /\ m.n >= 2 /\ m.tag = "new_thread"
    /\ last' = Op("msg", m, "", 0)
    /\ Commit(IF m.n < 3 THEN Raise(Cur) ELSE Emit(Cur, <<Ev("onLogEvent", m.tid, "new_thread")>>))
    /\ UNCHANGED <<registries, staged, info, ctxvars>>
    /\ UNCHANGED range
    /\ UNCHANGED broadcast

OnRelease(m) ==
    /\ Idle
    /\ m.env /\ m.n >= 2 /\ m.tag = "release"
    /\ last' = Op("msg", m, "", 0)
    /\ contexts' = ContextsAfter(contexts, m)
    /\ Commit(Emit(Cur, <<Ev("onLogEvent", ToInt(m.key), "releasing"), Ev("onThreadResumed", ToInt(m.key), "")>>))
    /\ UNCHANGED <<registries, staged, info, context_tid>>
    /\ UNCHANGED range
    /\ UNCHANGED broadcast

OnResume(m) ==
    /\ Idle
    /\ m.env /\ m.n >= 2 /\ m.tag = "resume"
    /\ last' = Op("msg", m, "", 0)
    /\ Commit(IF ~resumed THEN ResumeProcF(Cur) ELSE Cur)
    /\ UNCHANGED <<registries, staged, info, ctxvars>>
    /\ UNCHANGED range
    /\ UNCHANGED broadcast

\* a release_js that resumes the thread itself
OnReleaseJsDirect(m, f) ==
    /\ Idle
    /\ m.env /\ m.n >= 2 /\ m.tag = "release_js"
    /\ last' = Op("msg", m, "", 0)
    /\ contexts' = ReleaseContext(contexts, m.key)
    /\ Commit(Emit(Cur, <<Ev("onThreadResumed", ToInt(m.key), "")>>))
    /\ UNCHANGED <<registries, staged, info, context_tid>>
    /\ UNCHANGED range
    /\ UNCHANGED broadcast

\* onRequestJsThreadResume is connected to _on_request_resume_from_js,
\* which calls dwarf_api('release', tid, tid=tid); f is the failing send
OnReleaseJs(m, f) ==
    /\ Idle
    /\ m.env /\ m.n >= 2 /\ m.tag = "release_js"
    /\ last' = Op("msg", m, "", 0)
    /\ Commit(ApiF(Emit(Cur, <<Ev("onRequestJsThreadResume", ToInt(m.key), "")>>), "release", ToInt(m.key), f))
    /\ UNCHANGED <<registries, staged, info, ctxvars>>
    /\ UNCHANGED range
    /\ UNCHANGED broadcast

\* the events set_context republishes before onApplyContext
SubEvents(m) == IF m.subs THEN <<Ev("onSetModules", 0, ""), Ev("onSetRanges", 0, ""), Ev("onBackTrace", 0, "")>> ELSE <<>>

\* a handshake that takes the message for a hit
OnSetContextInitialAsHit(m) ==
    /\ Idle
    /\ m.env /\ m.n >= 2 /\ m.tag = "set_context" /\ m.reason = ReasonInitial
    /\ last' = Op("msg", m, "", 0)
    /\ info' = m.info
    /\ contexts' = IF m.hasctx THEN StoreContext(contexts, Str(m.tid)) ELSE contexts
    /\ context_tid' = context_tid
    /\ Commit(Emit(Cur, SubEvents(m) \o <<Ev("onApplyContext", m.tid, ""), Ev("onLogEvent", pid, "injected")>>))
    /\ UNCHANGED <<registries, staged>>
    /\ UNCHANGED range
    /\ UNCHANGED broadcast

\* set_context with reason -1, then _on_apply_context: the handshake
OnSetContextInitial(m) ==
    /\ Idle
    /\ m.env /\ m.n >= 2 /\ m.tag = "set_context" /\ m.reason = ReasonInitial
    /\ last' = Op("msg", m, "", 0)
    /\ info' = m.info
    /\ context_tid' = FirstHit(context_tid, m.reason, m.tid)
    /\ Commit(Emit(Cur, SubEvents(m) \o <<Ev("onApplyContext", m.tid, ""), Ev("onLogEvent", pid, "injected")>>))
    /\ UNCHANGED <<registries, staged, contexts>>
    /\ UNCHANGED range
    /\ UNCHANGED broadcast

\* the log line of a hit whose reason is 0
HitLog(m) == IF m.reason = ReasonHook THEN <<Ev("onLogEvent", m.tid, "hook")>> ELSE <<>>

\* set_context with another reason, then _on_apply_context: a hit
OnSetContextHit(m) ==
    /\ Idle
    /\ m.env /\ m.n >= 2 /\ m.tag = "set_context" /\ m.reason # ReasonInitial
    /\ last' = Op("msg", m, "", 0)
    /\ contexts' = ContextsAfter(contexts, m)
    /\ context_tid' = FirstHit(context_tid, m.reason, m.tid)
    /\ Commit(Emit(Cur, SubEvents(m) \o <<Ev("onApplyContext", m.tid, "")>> \o (IF m.hasctx THEN HitLog(m) ELSE <<>>)))
    /\ UNCHANGED <<registries, staged, info>>
    /\ UNCHANGED range
    /\ UNCHANGED broadcast

(***************************************************************************)
(* Hook and watcher registries.                                            *)
(***************************************************************************)
MsgHookJava == {[Base("hook_java_callback", 2) EXCEPT !.key = k] : k \in Names}
MsgHookJavaOnLoad == {[Base("hook_java_on_load_callback", 2) EXCEPT !.key = k] : k \in Names}
MsgHookNativeOnLoad == {[Base("hook_native_on_load_callback", 2) EXCEPT !.key = k] : k \in Names}
MsgHookNative == {[Base("hook_native_callback", n) EXCEPT !.key = k, !.internal = i] : n \in {2, 3, 6, 7}, k \in PtrTexts, i \in BOOLEAN}
DeletedKinds == {"java", "native_on_load", "java_on_load", "native", "other"}
MsgHookDeleted == {[Base("hook_deleted", n) EXCEPT !.kind = d, !.key = k] : n \in {2, 3}, d \in DeletedKinds, k \in Names \cup PtrTexts}
MsgWatcherAdded == {[Base("watcher_added", n) EXCEPT !.key = k] : n \in {2, 4}, k \in PtrTexts}
MsgWatcherRemoved == {[Base("watcher_removed", 2) EXCEPT !.key = k] : k \in PtrTexts}

\* dict[key] = value and dict.pop(key) on a dict kept as a function
Put(d, key, v) == [x \in DOMAIN d \cup {key} |-> IF x = key THEN v ELSE d[x]]
Pop(d, key) == [x \in DOMAIN d \ {key} |-> d[x]]

\* the hook built by hook_java_callback: the staged arguments when there
\* are any
JavaHook(pending) == IF pending # NoArgs THEN pending ELSE NoArgs

\* Hook.internal_hook after h.internalHook = parts[5] == 'true'
InternalHook(m) == m.internal

OnHookJavaCallback(m) ==
    /\ Idle
    /\ m.env /\ m.n >= 2 /\ m.tag = "hook_java_callback"
    /\ last' = Op("msg", m, "", 0)
    /\ java_hooks' = Put(java_hooks, m.key, JavaHook(java_pending_args))
    /\ java_pending_args' = NoArgs
    /\ Commit(Emit(Cur, <<Ev("onAddJavaHook", 0, m.key)>>))
    /\ UNCHANGED <<hooks, native_on_loads, java_on_loads, watchers, temporary_input, native_pending_args, info, ctxvars>>
    /\ UNCHANGED range
    /\ UNCHANGED broadcast

OnHookJavaOnLoadCallback(m) ==
    /\ Idle
    /\ m.env /\ m.n >= 2 /\ m.tag = "hook_java_on_load_callback"
    /\ last' = Op("msg", m, "", 0)
    /\ java_on_loads' = java_on_loads \cup {m.key}
    /\ Commit(Emit(Cur, <<Ev("onAddJavaOnLoadHook", 0, m.key)>>))
    /\ UNCHANGED <<hooks, native_on_loads, java_hooks, watchers, staged, info, ctxvars>>
    /\ UNCHANGED range
    /\ UNCHANGED broadcast

OnHookNativeOnLoadCallback(m) ==
    /\ Idle
    /\ m.env /\ m.n >= 2 /\ m.tag = "hook_native_on_load_callback"
    /\ last' = Op("msg", m, "", 0)
    /\ native_on_loads' = native_on_loads \cup {m.key}
    /\ Commit(Emit(Cur, <<Ev("onAddNativeOnLoadHook", 0, m.key)>>))
    /\ UNCHANGED <<hooks, java_on_loads, java_hooks, watchers, staged, info, ctxvars>>
    /\ UNCHANGED range
    /\ UNCHANGED broadcast

\* the number of parts hook_native_callback reads: parts[1] .. parts[6]
NativeCallbackParts == 7

\* reads parts[1], parts[2], clears temporary_input, then reads parts[4],
\* parts[3], parts[5], parts[6]; a missing part raises IndexError there
OnHookNativeCallback(m) ==
    /\ Idle
    /\ m.env /\ m.n >= 2 /\ m.tag = "hook_native_callback"
    /\ last' = Op("msg", m, "", 0)
    /\ temporary_input' = IF m.n < 3 THEN temporary_input ELSE ""
    /\ native_pending_args' = IF m.n < NativeCallbackParts THEN native_pending_args ELSE NoArgs
    /\ hooks' = IF m.n < NativeCallbackParts \/ InternalHook(m) THEN hooks ELSE hooks \cup {Int16(m.key)}
    /\ Commit(IF m.n < NativeCallbackParts THEN Raise(Cur)
               ELSE IF InternalHook(m) THEN Cur
               ELSE Emit(Cur, <<Ev("onAddNativeHook", 0, m.key)>>))
    /\ UNCHANGED <<native_on_loads, java_on_loads, java_hooks, watchers, java_pending_args, info, ctxvars>>
    /\ UNCHANGED range
    /\ UNCHANGED broadcast

\* the key hook_deleted pops, by parts[1]; any other kind is a native hook
DeletedMissing(m) ==
    CASE m.kind = "java" -> m.key \notin DOMAIN java_hooks
      [] m.kind = "native_on_load" -> m.key \notin native_on_loads
      [] m.kind = "java_on_load" -> m.key \notin java_on_loads
      [] OTHER -> ParsePtr(m.key) \notin hooks

\* dict.pop(key) without a default raises KeyError for a missing key,
\* before onDeleteHook is published
OnHookDeleted(m) ==
    /\ Idle
    /\ m.env /\ m.n >= 2 /\ m.tag = "hook_deleted"
    /\ last' = Op("msg", m, "", 0)
    /\ IF m.n < 3 \/ DeletedMissing(m)
       THEN /\ Commit(Raise(Cur))
            /\ UNCHANGED registries
       ELSE /\ Commit(Emit(Cur, <<Ev("onDeleteHook", 0, m.key)>>))
            /\ java_hooks' = IF m.kind = "java" THEN Pop(java_hooks, m.key) ELSE java_hooks
            /\ native_on_loads' = IF m.kind = "native_on_load" THEN native_on_loads \ {m.key} ELSE native_on_loads
            /\ java_on_loads' = IF m.kind = "java_on_load" THEN java_on_loads \ {m.key} ELSE java_on_loads
            /\ hooks' = IF m.kind \notin {"java", "native_on_load", "java_on_load"} THEN hooks \ {ParsePtr(m.key)} ELSE hooks
            /\ UNCHANGED watchers
    /\ UNCHANGED <<staged, info, ctxvars>>
    /\ UNCHANGED range
    /\ UNCHANGED broadcast

\* reads parts[1], parts[2], parts[3] before it stores the watcher
OnWatcherAdded(m) ==
    /\ Idle
    /\ m.env /\ m.n >= 2 /\ m.tag = "watcher_added"
    /\ last' = Op("msg", m, "", 0)
    /\ watchers' = IF m.n < 4 THEN watchers ELSE watchers \cup {Hex(ParsePtr(m.key))}
    /\ Commit(IF m.n < 4 THEN Raise(Cur) ELSE Emit(Cur, <<Ev("onWatcherAdded", 0, Hex(ParsePtr(m.key)))>>))
    /\ UNCHANGED <<hooks, native_on_loads, java_on_loads, java_hooks, staged, info, ctxvars>>
    /\ UNCHANGED range
    /\ UNCHANGED broadcast

OnWatcherRemoved(m) ==
    /\ Idle
    /\ m.env /\ m.n >= 2 /\ m.tag = "watcher_removed"
    /\ last' = Op("msg", m, "", 0)
    /\ watchers' = watchers \ {Hex(ParsePtr(m.key))}
    /\ Commit(IF Hex(ParsePtr(m.key)) \notin watchers THEN Raise(Cur) ELSE Emit(Cur, <<Ev("onWatcherRemoved", 0, Hex(ParsePtr(m.key)))>>))
    /\ UNCHANGED <<hooks, native_on_loads, java_on_loads, java_hooks, staged, info, ctxvars>>
    /\ UNCHANGED range
    /\ UNCHANGED broadcast

\* the second field of memoryscan_result: empty, two lists, not JSON
ScanFields == {"", "[]", "[1,2]", "x"}
MsgMemoryScanResult == {[Base("memoryscan_result", 2) EXCEPT !.key = k] : k \in ScanFields}

\* json.loads on the fields of the model that are JSON
JsonLoads(text) == CASE text = "[]" -> <<>> [] text = "[1,2]" -> <<1, 2>> [] OTHER -> <<>>

\* json.loads raises on a field that is not JSON
JsonFails(text) == text \notin {"[]", "[1,2]"}

\* a handler that publishes nothing for an empty field
OnMemoryScanResultSkipsEmpty(m) ==
    /\ Idle
    /\ m.env /\ m.n >= 2 /\ m.tag = "memoryscan_result"
    /\ last' = Op("msg", m, "", 0)
    /\ Commit(IF m.key = "" THEN Cur
               ELSE IF JsonFails(m.key) THEN Raise(Cur)
               ELSE Emit(Cur, <<Ev("onMemoryScanResult", 0, ToString(JsonLoads(m.key)))>>))
    /\ UNCHANGED <<registries, staged, info, ctxvars>>
    /\ UNCHANGED range
    /\ UNCHANGED broadcast

\* if parts[1] == '': emit([]) else: emit(json.loads(parts[1])); the event
\* carries the list, written as text
OnMemoryScanResult(m) ==
    /\ Idle
    /\ m.env /\ m.n >= 2 /\ m.tag = "memoryscan_result"
    /\ last' = Op("msg", m, "", 0)
    /\ Commit(IF m.key = "" THEN Emit(Cur, <<Ev("onMemoryScanResult", 0, ToString(<<>>))>>)
               ELSE IF JsonFails(m.key) THEN Raise(Cur)
               ELSE Emit(Cur, <<Ev("onMemoryScanResult", 0, ToString(JsonLoads(m.key)))>>))
    /\ UNCHANGED <<registries, staged, info, ctxvars>>
    /\ UNCHANGED range
    /\ UNCHANGED broadcast

(***************************************************************************)
(* The user-facing requests; each ends in a dwarf_api call whose f-th send *)
(* raises.                                                                 *)
(***************************************************************************)
HookJava(name, pending, f) ==
    /\ Idle
    /\ last' = Op("hook_java", [NoMsg EXCEPT !.key = name], "hookJava", 0)
    /\ java_pending_args' = pending
    /\ Commit([ApiF(Cur, "hookJava", 0, f) EXCEPT !.ret = "None"])
    /\ UNCHANGED <<registries, temporary_input, native_pending_args, info, ctxvars>>
    /\ UNCHANGED range
    /\ UNCHANGED broadcast

\* evaluatePtr resolves the input through the payload; a None answer is
\* pointer 0 and nothing is staged or requested
HookNative(text, pending, f, g) ==
    /\ Idle
    /\ last' = Op("hook_native", [NoMsg EXCEPT !.key = text], "hookNative", 0)
    /\ LET L1 == ApiF(Cur, "evaluatePtr", 0, f)
           ptr == IF L1.ret = "value" THEN ParsePtr(text) ELSE 0
       IN  IF ptr > 0
           THEN /\ temporary_input' = text
                /\ native_pending_args' = pending
                /\ Commit(ApiF(L1, "hookNative", 0, g))
           ELSE /\ Commit([L1 EXCEPT !.ret = "None"])
                /\ UNCHANGED <<temporary_input, native_pending_args>>
    /\ UNCHANGED <<registries, java_pending_args, info, ctxvars>>
    /\ UNCHANGED range
    /\ UNCHANGED broadcast

\* a request that enters the hook before the payload acknowledges it
HookNativeOnLoadSpeculative(name, f) ==
    /\ Idle
    /\ last' = Op("hook_native_on_load", [NoMsg EXCEPT !.key = name], "hookNativeOnLoad", 0)
    /\ Commit(IF name \in native_on_loads THEN Cur ELSE [ApiF(Cur, "hookNativeOnLoad", 0, f) EXCEPT !.ret = "None"])
    /\ native_on_loads' = native_on_loads \cup {name}
    /\ UNCHANGED <<hooks, java_on_loads, java_hooks, watchers, staged, info, ctxvars>>
    /\ UNCHANGED range
    /\ UNCHANGED broadcast

HookNativeOnLoad(name, f) ==
    /\ Idle
    /\ last' = Op("hook_native_on_load", [NoMsg EXCEPT !.key = name], "hookNativeOnLoad", 0)
    /\ Commit(IF name \in native_on_loads THEN Cur ELSE [ApiF(Cur, "hookNativeOnLoad", 0, f) EXCEPT !.ret = "None"])
    /\ UNCHANGED <<registries, staged, info, ctxvars>>
    /\ UNCHANGED range
    /\ UNCHANGED broadcast

\* the guard looks the name up in native_on_loads
HookJavaOnLoad(name, f) ==
    /\ Idle
    /\ last' = Op("hook_java_on_load", [NoMsg EXCEPT !.key = name], "hookJavaOnLoad", 0)
    /\ Commit(IF name \in native_on_loads THEN Cur ELSE [ApiF(Cur, "hookJavaOnLoad", 0, f) EXCEPT !.ret = "None"])
    /\ UNCHANGED <<registries, staged, info, ctxvars>>
    /\ UNCHANGED range
    /\ UNCHANGED broadcast

AddWatcher(text, f) ==
    /\ Idle
    /\ last' = Op("add_watcher", [NoMsg EXCEPT !.key = text], "addWatcher", 0)
    /\ Commit(ApiF(Cur, "addWatcher", 0, f))
    /\ UNCHANGED <<registries, staged, info, ctxvars>>
    /\ UNCHANGED range
    /\ UNCHANGED broadcast

RemoveWatcher(text, f) ==
    /\ Idle
    /\ last' = Op("remove_watcher", [NoMsg EXCEPT !.key = text], "removeWatcher", 0)
    /\ Commit(ApiF(Cur, "removeWatcher", 0, f))
    /\ UNCHANGED <<registries, staged, info, ctxvars>>
    /\ UNCHANGED range
    /\ UNCHANGED broadcast

(***************************************************************************)
(* The public operations of the session object.                            *)
(***************************************************************************)
\* the empty dict
EmptyDict == [x \in {} |-> NoArgs]

\* a reinitialize() that keeps the device
KeepDevice(d) == d

\* reinitialize(): self._device = None
ReinitDevice(d) == "none"

\* reinitialize() has no assignment to self.contexts
ReinitContexts(c) == c

\* reinitialize() has no assignment to self.watchers
ReinitWatchers(w) == w

\* reinitialize() resets java_available, not _arch, _platform, _pointer_size
ReinitInfo(i) == [i EXCEPT !.java = FALSE]

\* in the operation record of reinitialize, api names the device before
Reinitialize ==
    /\ Idle
    /\ last' = Op("reinitialize", NoMsg, device, 0)
    /\ Commit([Cur EXCEPT !.device = ReinitDevice(device), !.process = 0, !.script = "none", !.pid = 0, !.spawned = FALSE, !.resumed = FALSE])
    /\ info' = ReinitInfo(info)
    /\ hooks' = {}
    /\ native_on_loads' = {}
    /\ java_on_loads' = {}
    /\ java_hooks' = EmptyDict
    /\ watchers' = ReinitWatchers(watchers)
    /\ temporary_input' = ""
    /\ native_pending_args' = NoArgs
    /\ java_pending_args' = NoArgs
    /\ contexts' = ReinitContexts(contexts)
    /\ context_tid' = 0
    /\ UNCHANGED range
    /\ UNCHANGED broadcast

\* the device setter, given a frida device
SetDevice ==
    /\ Idle
    /\ last' = Op("set_device", NoMsg, "", 0)
    /\ Commit([Cur EXCEPT !.device = "dev"])
    /\ UNCHANGED <<registries, staged, info, ctxvars>>
    /\ UNCHANGED range
    /\ UNCHANGED broadcast

DwarfApi(api, tid, f) ==
    /\ Idle
    /\ last' = Op("dwarf_api", NoMsg, api, tid)
    /\ Commit(ApiF(Cur, api, tid, f))
    /\ UNCHANGED <<registries, staged, info, ctxvars>>
    /\ UNCHANGED range
    /\ UNCHANGED broadcast

\* in the operation record of attach and spawn, api names what went wrong
Attach(p, user, f, g, fail) ==
    /\ Idle
    /\ last' = Op("attach", NoMsg, fail, p)
    /\ Commit(AttachF(Cur, p, user, f, g, fail))
    /\ UNCHANGED <<registries, staged, info, ctxvars>>
    /\ UNCHANGED range
    /\ UNCHANGED broadcast

Spawn(p, user, f, g, fail) ==
    /\ Idle
    /\ last' = Op("spawn", NoMsg, fail, p)
    /\ Commit(SpawnF(Cur, p, user, f, g, fail))
    /\ UNCHANGED <<registries, staged, info, ctxvars>>
    /\ UNCHANGED range
    /\ UNCHANGED broadcast

\* load_script(script, spawned) called on its own; with no process
\* self._process.create_script raises AttributeError
LoadScript(sp, user, g, fail) ==
    /\ Idle
    /\ last' = Op("load_script", NoMsg, fail, IF sp THEN 1 ELSE 0)
    /\ Commit(IF process = 0 /\ fail # "nocore" THEN Raise(Cur) ELSE LoadScriptF(Cur, sp, user, g, fail))
    /\ UNCHANGED <<registries, staged, info, ctxvars>>
    /\ UNCHANGED range
    /\ UNCHANGED broadcast

\* in the operation record of detach, api names the answer to the kill
Detach(f, k) ==
    /\ Idle
    /\ k = "ok" \/ (process # 0 /\ spawned)
    /\ last' = Op("detach", NoMsg, k, 0)
    /\ Commit(DetachF(Cur, f, k))
    /\ UNCHANGED <<registries, staged, info, ctxvars>>
    /\ UNCHANGED range
    /\ UNCHANGED broadcast

ResumeProc ==
    /\ Idle
    /\ last' = Op("resume_proc", NoMsg, "", 0)
    /\ Commit(ResumeProcF(Cur))
    /\ UNCHANGED <<registries, staged, info, ctxvars>>
    /\ UNCHANGED range
    /\ UNCHANGED broadcast

\* _on_script_destroyed, called by the engine once a script is gone
ScriptDestroyed ==
    /\ Idle
    /\ script = "unloaded"
    /\ last' = Op("script_destroyed", NoMsg, "", 0)
    /\ Commit([Cur EXCEPT !.script = "none"])
    /\ UNCHANGED <<registries, staged, info, ctxvars>>
    /\ UNCHANGED range
    /\ UNCHANGED broadcast

\* the operation has returned: what it let the outside see is forgotten
Return ==
    /\ ~Idle
    /\ last' = Op("idle", NoMsg, "", 0)
    /\ out' = <<>>
    /\ raised' = FALSE
    /\ ret' = "None"
    /\ UNCHANGED <<lifecycle, registries, staged, info, ctxvars>>
    /\ UNCHANGED range
    /\ UNCHANGED broadcast

(***************************************************************************)
(* dwarf_api('release') with tid 0, send by send: the messages of the      *)
(* payload are dispatched on another thread and may come between two sends *)
(* of the loop. broadcast holds the list the loop walks (keys: what is     *)
(* left of it, snap: all of it), the place in the loop body and the sends  *)
(* made so far.                                                            *)
(***************************************************************************)
NoBroadcast == [pc |-> "off", keys |-> <<>>, snap |-> <<>>, sent |-> <<>>]

\* a loop over the live keys of the dict
LiveKeys(b, ctxs) == SelectSeq(b.keys, LAMBDA key : key \in Elems(ctxs))

\* the for loop walks the list made by list(self.contexts.keys()) before
\* the first send, whatever is deleted from the dict meanwhile
LoopKeys(b, ctxs) == b.keys

\* the call reaches the try block: the keys are listed
ReleaseAllStart ==
    /\ broadcast.pc = "off"
    /\ process # 0
    /\ script = "loaded"
    /\ broadcast' = [pc |-> "post", keys |-> contexts, snap |-> contexts, sent |-> <<>>]
    /\ UNCHANGED <<lifecycle, registries, staged, info, ctxvars, range, ghost>>

\* self._script.post({"type": tid}) for the next key; fl tells that it
\* raises, which ends the loop in the except clause
ReleaseAllPost(fl) ==
    /\ broadcast.pc = "post"
    /\ LoopKeys(broadcast, contexts) # <<>>
    /\ LET key == Head(LoopKeys(broadcast, contexts))
       IN  broadcast' = IF fl
                        THEN [broadcast EXCEPT !.pc = "done", !.sent = @ \o <<Failed(Post(key)), LogError>>]
                        ELSE [broadcast EXCEPT !.pc = "api", !.keys = LoopKeys(broadcast, contexts), !.sent = Append(@, Post(key))]
    /\ UNCHANGED <<lifecycle, registries, staged, info, ctxvars, range, ghost>>

\* self._script.exports.api(int(tid), api, [int(tid)]) for the key
ReleaseAllInvoke(fl) ==
    /\ broadcast.pc = "api"
    /\ LET key == Head(broadcast.keys)
       IN  broadcast' = IF fl
                        THEN [broadcast EXCEPT !.pc = "done", !.sent = @ \o <<Failed(Api(ToInt(key), "release", "int")), LogError>>]
                        ELSE [broadcast EXCEPT !.pc = "post", !.keys = Tail(@), !.sent = Append(@, Api(ToInt(key), "release", "int"))]
    /\ UNCHANGED <<lifecycle, registries, staged, info, ctxvars, range, ghost>>

\* the list is exhausted: if is_releasing: return None
ReleaseAllEnd ==
    /\ broadcast.pc = "post"
    /\ LoopKeys(broadcast, contexts) = <<>>
    /\ broadcast' = [broadcast EXCEPT !.pc = "done", !.keys = <<>>]
    /\ UNCHANGED <<lifecycle, registries, staged, info, ctxvars, range, ghost>>

\* the call has returned
ReleaseAllReturn ==
    /\ broadcast.pc = "done"
    /\ broadcast' = NoBroadcast
    /\ UNCHANGED <<lifecycle, registries, staged, info, ctxvars, range, ghost>>

(***************************************************************************)
(* Range (lib/range.py): the cache of one fetched memory region. A byte of *)
(* memory is "m" where the target holds plain memory, "t" where a hook has *)
(* put its trap, "o" where the original bytes of a hook were patched in.   *)
(***************************************************************************)
\* the highest address asked for
MaxAddr == 6
Addrs == 1..MaxAddr

\* the regions of the target, as getRange reports them: base in hex, size
Regions == {[base |-> "0x2", size |-> 4], [base |-> "0x6", size |-> 2]}

\* the answer of getRange for an address: the regions that hold it
RegionsOf(a) == {r \in Regions : Int16(r.base) <= a /\ a < Int16(r.base) + r.size}

\* the hooks the payload may report: nativePtr (1 for a java hook) and the
\* number of original bytes it holds (0: none known)
PayloadHooks == {[nativePtr |-> 1, bytes |-> 1], [nativePtr |-> 2, bytes |-> 1], [nativePtr |-> 4, bytes |-> 0], [nativePtr |-> 4, bytes |-> 1], [nativePtr |-> 4, bytes |-> 3], [nativePtr |-> 5, bytes |-> 1]}
HookLists == {<<>>} \cup {<<h>> : h \in PayloadHooks}

\* Range.SOURCE_TARGET
SOURCE_TARGET == 0

\* Range.__init__(source, dwarf); none tells that data is None
NewRangeF(source) == [source |-> source, base |-> 0, size |-> 0, tail |-> 0, data |-> <<>>, none |-> FALSE, start_address |-> 0, start_offset |-> 0]

\* invalidate()
InvalidateF(R) == [R EXCEPT !.base = 0, !.size = 0, !.tail = 0, !.data = <<>>, !.none = FALSE, !.start_address = 0, !.start_offset = 0]

\* set_start_offset(offset)
SetStartOffsetF(R, offset) == [R EXCEPT !.start_offset = offset, !.start_address = R.base + offset]

\* if hook_address % 2 != 0: hook_address -= 1
StripThumb(h) == IF h % 2 # 0 THEN h - 1 ELSE h

\* the trap of a hook lies where its original bytes were
Trapped(hs, x) == \E i \in DOMAIN hs : hs[i].nativePtr # 1 /\ hs[i].bytes > 0 /\ StripThumb(hs[i].nativePtr) <= x /\ x < StripThumb(hs[i].nativePtr) + hs[i].bytes

\* what readBytes answers for [base, base + size) while hs are installed
ReadMemory(base, size, hs) == [i \in 1..size |-> IF Trapped(hs, base + i - 1) THEN "t" ELSE "m"]

\* patch_bytes: data_bt[offset:offset+len(org_bytes)] = org_bytes; a slice
\* that runs past the end lengthens the buffer
PatchBytes(data, n, offset) == SubSeq(data, 1, offset) \o [i \in 1..n |-> "o"] \o SubSeq(data, offset + n + 1, Len(data))

\* if self.base > 0: if self.base < self.start_address < self.tail
InCache(R, a) == R.base > 0 /\ R.base < a /\ a < R.tail

\* the hooks the loop patches: nativePtr != 1 and bytes, and
\* self.base < hook_address < self.tail
HookInRange(R, h) == h.nativePtr # 1 /\ h.bytes > 0 /\ R.base < StripThumb(h.nativePtr) /\ StripThumb(h.nativePtr) < R.tail

\* the for loop over the hooks of the payload, from the i-th on
RECURSIVE PatchHooks(_, _, _)
PatchHooks(R, hs, i) ==
    IF i > Len(hs) THEN R
    ELSE IF HookInRange(R, hs[i])
         THEN PatchHooks([R EXCEPT !.data = PatchBytes(@, hs[i].bytes, StripThumb(hs[i].nativePtr) - R.base)], hs, i + 1)
         ELSE PatchHooks(R, hs, i + 1)

\* the end of init_with_address: None or empty data is a failure
RangeStatus(R, L) ==
    IF R.none THEN [r |-> [R EXCEPT !.data = <<>>, !.none = FALSE], L |-> [L EXCEPT !.ret = "1"]]
    ELSE IF Len(R.data) = 0 THEN [r |-> R, L |-> [L EXCEPT !.ret = "1"]]
    ELSE [r |-> R, L |-> [L EXCEPT !.ret = "0"]]

\* setup range fields, from the answer reg of getRange
SetupRange(R, reg, a, length, base) ==
    LET b == IF base > 0 THEN base ELSE Int16(reg.base)
        sz == IF 0 < length /\ length < reg.size THEN length ELSE reg.size
    IN  [R EXCEPT !.base = b, !.size = sz, !.tail = b + sz, !.start_offset = a - b]

\* if require_data: read_memory (one readBytes for a region up to 1 MB),
\* then the hooks of the payload are patched in; bytearray(None) raises
\* TypeError when the read failed and a hook is in range
FetchData(R, L, hs, g) ==
    LET L1 == ApiF(L, "readBytes", 0, g)
        L2 == Emit(L1, <<Eng("hooks", 0)>>)
        R1 == IF L1.ret = "value" THEN [R EXCEPT !.data = ReadMemory(R.base, R.size, hs), !.none = FALSE] ELSE [R EXCEPT !.data = <<>>, !.none = TRUE]
    IN  IF R1.none
        THEN IF \E i \in DOMAIN hs : HookInRange(R1, hs[i]) THEN [r |-> R1, L |-> Raise(L2)] ELSE RangeStatus(R1, L2)
        ELSE RangeStatus(PatchHooks(R1, hs, 1), L2)

\* init_with_address(address, length, base, require_data): f and g are the
\* failing sends of getRange and of readBytes, hs the hooks of the payload
InitWithAddressF(R, L, a, length, base, rd, hs, f, g) ==
    LET R1 == [R EXCEPT !.start_address = a]
    IN  IF InCache(R, a) THEN [r |-> [R1 EXCEPT !.start_offset = a - R.base], L |-> [L EXCEPT !.ret = "-1"]]
        ELSE IF R.source # SOURCE_TARGET THEN RangeStatus(R1, L)
        ELSE LET L1 == ApiF(L, "getRange", 0, f)
             IN  IF L1.ret # "value" \/ RegionsOf(a) = {} THEN [r |-> R1, L |-> [L1 EXCEPT !.ret = "1"]]
                 ELSE LET R2 == SetupRange(R1, CHOOSE reg \in RegionsOf(a) : TRUE, a, length, base)
                      IN  IF rd THEN FetchData(R2, L1, hs, g) ELSE RangeStatus(R2, L1)

\* the inputs of init_with_address: length and base, and the hooks and
\* failing sends that can matter for them
Extents == {<<0, 0>>, <<2, 0>>, <<0, 3>>}
Answers == {<<rd, <<>>, 1, 0>> : rd \in BOOLEAN} \cup {<<FALSE, <<>>, 0, 0>>} \cup {<<TRUE, hs, 0, g>> : hs \in HookLists, g \in 0..1}

NewRange(source) ==
    /\ Idle
    /\ last' = Op("new_range", NoMsg, "", source)
    /\ range' = NewRangeF(source)
    /\ Commit(Cur)
    /\ UNCHANGED <<registries, staged, info, ctxvars>>
    /\ UNCHANGED broadcast

Invalidate ==
    /\ Idle
    /\ last' = Op("invalidate", NoMsg, "", 0)
    /\ range' = InvalidateF(range)
    /\ Commit(Cur)
    /\ UNCHANGED <<registries, staged, info, ctxvars>>
    /\ UNCHANGED broadcast

SetStartOffset(offset) ==
    /\ Idle
    /\ last' = Op("set_start_offset", NoMsg, "", offset)
    /\ range' = SetStartOffsetF(range, offset)
    /\ Commit(Cur)
    /\ UNCHANGED <<registries, staged, info, ctxvars>>
    /\ UNCHANGED broadcast

\* in the operation record of init_with_address, tid is the address and
\* api tells whether data was required
InitWithAddress(a, length, base, rd, hs, f, g) ==
    /\ Idle
    /\ last' = Op("init_with_address", NoMsg, IF rd THEN "data" ELSE "nodata", a)
    /\ LET res == InitWithAddressF(range, Cur, a, length, base, rd, hs, f, g)
       IN  range' = res.r /\ Commit(res.L)
    /\ UNCHANGED <<registries, staged, info, ctxvars>>
    /\ UNCHANGED broadcast

\* the object after __init__
Init ==
    /\ device = "none"
    /\ process = 0
    /\ script = "none"
    /\ pid = 0
    /\ spawned = FALSE
    /\ resumed = FALSE
    /\ hooks = {}
    /\ native_on_loads = {}
    /\ java_on_loads = {}
    /\ java_hooks = EmptyDict
    /\ watchers = {}
    /\ temporary_input = ""
    /\ native_pending_args = NoArgs
    /\ java_pending_args = NoArgs
    /\ info = NoInfo
    /\ contexts = <<>>
    /\ context_tid = 0
    /\ range = NewRangeF(SOURCE_TARGET)
    /\ broadcast = NoBroadcast
    /\ last = Op("idle", NoMsg, "", 0)
    /\ out = <<>>
    /\ raised = FALSE
    /\ ret = "None"

(***************************************************************************)
(* Spec: the gateway and the context store. One process is attached to;    *)
(* the payload sends context, release, log and unrecognized messages and   *)
(* acknowledges on-load hooks and watchers.                                *)
(***************************************************************************)
Next ==
    \/ Return
    \/ SetDevice
    \/ Reinitialize
    \/ \E fail \in {"ok", "attach"} : Attach(1, FALSE, 0, 0, fail)
    \/ \E api \in ApiNames, tid \in {0} \cup Tids, f \in 0..MaxSends : DwarfApi(api, tid, f)
    \/ \E m \in MsgRelease : OnRelease(m)
    \/ \E m \in MsgReleaseJs, f \in 0..2 : OnReleaseJs(m, f)
    \/ \E m \in MsgInitial : OnSetContextInitial(m)
    \/ \E m \in MsgHit : OnSetContextHit(m)
    \/ \E m \in MsgUnknown : OnUnknown(m)
    \/ \E m \in MsgNoPayload \cup MsgShort : OnDropped(m)
    \/ \E m \in MsgLog : OnLog(m)
    \/ \E m \in MsgResume : OnResume(m)
    \/ \E m \in MsgHookNativeOnLoad : OnHookNativeOnLoadCallback(m)
    \/ \E m \in {x \in MsgHookDeleted : x.kind = "native_on_load" /\ x.n = 3 /\ x.key \in Names} : OnHookDeleted(m)
    \/ \E m \in {x \in MsgWatcherAdded : x.n = 4} : OnWatcherAdded(m)
    \/ \E m \in MsgWatcherRemoved : OnWatcherRemoved(m)

Spec == Init /\ [][Next]_vars

(***************************************************************************)
(* SpecReg: the hook and watcher registries. The payload acknowledges      *)
(* installs and removals; the user requests hooks and watchers.            *)
(***************************************************************************)
NextReg ==
    \/ Return
    \/ SetDevice
    \/ Reinitialize
    \/ \E fail \in {"ok"} : Attach(1, FALSE, 0, 0, fail)
    \/ \E m \in MsgHookJava : OnHookJavaCallback(m)
    \/ \E m \in MsgHookJavaOnLoad : OnHookJavaOnLoadCallback(m)
    \/ \E m \in MsgHookNativeOnLoad : OnHookNativeOnLoadCallback(m)
    \/ \E m \in MsgHookNative : OnHookNativeCallback(m)
    \/ \E m \in MsgHookDeleted : OnHookDeleted(m)
    \/ \E m \in MsgWatcherAdded : OnWatcherAdded(m)
    \/ \E m \in MsgWatcherRemoved : OnWatcherRemoved(m)
    \/ \E m \in MsgNewThread : OnNewThread(m)
    \/ \E m \in MsgMemoryScanResult : OnMemoryScanResult(m)
    \/ \E m \in MsgLog : OnLog(m)
    \/ \E m \in MsgUnknown : OnUnknown(m)
    \/ \E m \in MsgNoPayload \cup MsgShort : OnDropped(m)
    \/ \E m \in {x \in MsgHit : x.tid = 1 /\ x.hasctx /\ x.reason = ReasonHook} : OnSetContextHit(m)
    \/ \E k \in Names, a \in {NoArgs, SomeArgs}, f \in 0..1 : HookJava(k, a, f)
    \/ \E k \in PtrTexts, a \in {NoArgs, SomeArgs}, f \in 0..1, g \in 0..1 : HookNative(k, a, f, g)
    \/ \E k \in Names, f \in 0..1 : HookNativeOnLoad(k, f)
    \/ \E k \in Names, f \in 0..1 : HookJavaOnLoad(k, f)
    \/ \E k \in PtrTexts, f \in 0..1 : AddWatcher(k, f)
    \/ \E k \in PtrTexts, f \in 0..1 : RemoveWatcher(k, f)

SpecReg == Init /\ [][NextReg]_vars

(***************************************************************************)
(* SpecLife: the lifecycle of the session.                                 *)
(***************************************************************************)
NextLife ==
    \/ Return
    \/ SetDevice
    \/ Reinitialize
    \/ \E p \in Pids, user \in BOOLEAN, f \in 0..1, g \in 0..1, fail \in AttachFails : Attach(p, user, f, g, fail)
    \/ \E p \in Pids, user \in BOOLEAN, f \in 0..1, g \in 0..1, fail \in SpawnFails : Spawn(p, user, f, g, fail)
    \/ \E f \in 0..1, k \in KillAnswers : Detach(f, k)
    \/ \E sp \in BOOLEAN, user \in BOOLEAN, g \in 0..1, fail \in AttachFails \ {"attach"} : LoadScript(sp, user, g, fail)
    \/ ResumeProc
    \/ ScriptDestroyed
    \/ \E m \in MsgResume : OnResume(m)

SpecLife == Init /\ [][NextLife]_vars

(***************************************************************************)
(* SpecRange: one memory view over an attached session.                    *)
(***************************************************************************)
NextRange ==
    \/ Return
    \/ SetDevice
    \/ \E fail \in {"ok", "load"} : Attach(1, FALSE, 0, 0, fail)
    \/ \E source \in {SOURCE_TARGET, 1} : NewRange(source)
    \/ Invalidate
    \/ \E offset \in {1} : SetStartOffset(offset)
    \/ \E a \in Addrs, e \in Extents, x \in Answers : InitWithAddress(a, e[1], e[2], x[1], x[2], x[3], x[4])

SpecRange == Init /\ [][NextRange]_vars

(***************************************************************************)
(* SpecBroadcast: the messages of the stopped threads, dispatched while a  *)
(* release of every thread is in progress on the caller's thread.          *)
(***************************************************************************)
NextBroadcast ==
    \/ Return
    \/ broadcast.pc = "off" /\ SetDevice
    \/ broadcast.pc = "off" /\ \E fail \in {"ok"} : Attach(1, FALSE, 0, 0, fail)
    \/ \E m \in MsgRelease : OnRelease(m)
    \/ \E m \in MsgHit : OnSetContextHit(m)
    \/ ReleaseAllStart
    \/ \E fl \in BOOLEAN : ReleaseAllPost(fl)
    \/ \E fl \in BOOLEAN : ReleaseAllInvoke(fl)
    \/ ReleaseAllEnd
    \/ ReleaseAllReturn

SpecBroadcast == Init /\ [][NextBroadcast]_vars

(***************************************************************************)
(* SpecKill: attach, spawn and detach on one session. The engine gives a   *)
(* process it spawns a pid of its own; the processes that run already, to  *)
(* be attached to, have the other pids.                                    *)
(***************************************************************************)
SpawnedPids == {p \in Pids : p % 2 = 1}
RunningPids == Pids \ SpawnedPids

NextKill ==
    \/ Return
    \/ SetDevice
    \/ Reinitialize
    \/ \E p \in RunningPids, fail \in AttachFails : Attach(p, FALSE, 0, 0, fail)
    \/ \E p \in SpawnedPids, fail \in SpawnFails : Spawn(p, FALSE, 0, 0, fail)
    \/ \E k \in KillAnswers : Detach(0, k)
    \/ ScriptDestroyed

SpecKill == Init /\ [][NextKill]_vars

(***************************************************************************)
(* SpecJava: java hooks on two names. The user requests a hook with a      *)
(* condition and logic of its own name, or with none; the payload          *)
(* acknowledges and deletes hooks in any order.                            *)
(***************************************************************************)
JavaNames == {"a", "b"}

\* the condition and logic the user stages with a request for this name
ArgsOf(name) == [condition |-> "c_" \o name, logic |-> "l_" \o name]

MsgHookJavaOf == {[Base("hook_java_callback", 2) EXCEPT !.key = k] : k \in JavaNames}
MsgJavaDeleted == {[Base("hook_deleted", 3) EXCEPT !.kind = "java", !.key = k] : k \in JavaNames}

NextJava ==
    \/ Return
    \/ SetDevice
    \/ \E fail \in {"ok"} : Attach(1, FALSE, 0, 0, fail)
    \/ \E k \in JavaNames, some \in BOOLEAN, f \in 0..1 : HookJava(k, IF some THEN ArgsOf(k) ELSE NoArgs, f)
    \/ \E m \in MsgHookJavaOf : OnHookJavaCallback(m)
    \/ \E m \in MsgJavaDeleted : OnHookDeleted(m)

SpecJava == Init /\ [][NextJava]_vars

(***************************************************************************)
(* Properties.                                                             *)
(***************************************************************************)
\* the operation that acted last is the dispatch of a message with this tag
Dispatched(l, tag) == l.op = "msg" /\ l.m.env /\ l.m.n >= 2 /\ l.m.tag = tag

Stored(ctxs, t) == Str(t) \in Elems(ctxs)

\* the places of out that hold a send of this kind for thread t
Sends(o, k, t) == {i \in DOMAIN o : o[i].k = k /\ o[i].tid = t}

SomeFailed(o) == \E i \in DOMAIN o : o[i].k = "failed"

LogEvents(o) == {i \in DOMAIN o : o[i].k = "event" /\ o[i].name = "onLogEvent"}

\* C1: for every thread id t, a hit (a set_context with another reason than
\* the initial one, carrying a context) for t puts t in the context store;
\* from then on t stays in the store through every operation but the
\* dispatch of release for t, and that dispatch removes it.
C1_ContextUntilRelease ==
    [][\A t \in Tids :
        /\ (Dispatched(last', "set_context") /\ last'.m.reason # ReasonInitial /\ last'.m.hasctx /\ last'.m.tid = t) => Stored(contexts', t)
        /\ (Dispatched(last', "release") /\ last'.m.key = Str(t)) => ~Stored(contexts', t)
        /\ (Stored(contexts, t) /\ ~(Dispatched(last', "release") /\ last'.m.key = Str(t))) => Stored(contexts', t)]_vars

\* two threads are stopped and the release of one has just been dispatched
C1_Witness ==
    /\ Dispatched(last, "release")
    /\ last.m.key = Str(1)
    /\ contexts = <<Str(2)>>
    /\ context_tid = 1

C3_ApiNeverRaises ==
    [][last'.op = "dwarf_api" =>
        /\ ~raised'
        /\ SomeFailed(out') => (ret' = "None" /\ Cardinality(LogEvents(out')) = 1 /\ out'[Len(out')] = LogError)
        /\ UNCHANGED <<registries, contexts, context_tid>>]_vars

\* a call whose invocation failed after its routing notification was sent
C3_Witness ==
    /\ last.op = "dwarf_api"
    /\ SomeFailed(out)
    /\ Len(out) = 3
    /\ out[2].name = "readBytes"
    /\ ret = "None"
    /\ contexts # <<>>

\* the operations that go through dwarf_api
ThroughApi == {"dwarf_api", "msg", "load_script", "hook_java", "hook_native", "hook_native_on_load", "hook_java_on_load", "add_watcher", "remove_watcher", "attach", "spawn", "detach"}

\* the invocation at place i of o comes right after exactly one routing
\* notification, which names the thread of the invocation
RoutedOnce(o, i) ==
    /\ i > 1
    /\ o[i - 1].k = "post"
    /\ o[i - 1].tid = o[i].tid
    /\ i > 2 => o[i - 2].k # "post"

\* the invocation at place i of o comes right after a routing notification
\* that names the thread of the invocation
Routed(o, i) ==
    /\ i > 1
    /\ o[i - 1].k = "post"
    /\ o[i - 1].tid = o[i].tid

\* C4 as claimed: every invocation dwarf_api forwards, whatever the api and
\* also for tid 0 with no active thread, comes right after exactly one
\* routing notification naming the thread it is invoked with.
C4_Original ==
    last.op \in ThroughApi => \A i \in DOMAIN out : out[i].k = "api" => RoutedOnce(out, i)

\* C4 as amended: every invocation forwarded with a thread id other than 0
\* comes right after a routing notification naming that thread (a call with
\* tid 0 and no active thread first notifies every stored thread in turn
\* and invokes with the last one); an invocation is forwarded with thread
\* id 0 only by a call other than release that resolves to no thread while
\* the context store is empty, and then no routing notification is sent.
C4_RoutingBeforeInvocation ==
    last.op \in ThroughApi => \A i \in DOMAIN out : out[i].k = "api" =>
        IF out[i].tid # 0
        THEN /\ Routed(out, i)
             /\ out[i].arg = "int" => RoutedOnce(out, i)
             /\ out[i].arg = "str" => (context_tid = 0 /\ out[i].name # "release" /\ out[i].tid = ToInt(contexts[Len(contexts)]))
        ELSE /\ contexts = <<>>
             /\ context_tid = 0
             /\ out[i].name # "release"
             /\ \A j \in DOMAIN out : out[j].k # "post"

\* a call with tid 0 and no active thread while a thread is stored: the
\* invocation went to that thread, after its notification
C4_Witness ==
    /\ last.op = "dwarf_api" /\ last.tid = 0 /\ last.api = "readBytes"
    /\ context_tid = 0
    /\ Len(contexts) = 2
    /\ Len(out) = 3
    /\ out[3].k = "api" /\ out[3].tid # 0

\* the hook registries, the watcher registry and the context store hold
\* something
Populated == native_on_loads # {} /\ java_hooks # EmptyDict /\ watchers # {} /\ contexts # <<>> /\ context_tid # 0

\* C5: the dispatch of a message whose tag is not one of the recognized tags
\* does not raise, publishes no event and changes neither a hook registry,
\* nor the watcher registry, nor the context store, nor context_tid, nor a
\* session field.
C5_UnknownTagNoEffect ==
    [][(last'.op = "msg" /\ last'.m.env /\ last'.m.tag \notin KnownTags) =>
        /\ ~raised'
        /\ out' = <<>>
        /\ UNCHANGED <<lifecycle, registries, staged, info, ctxvars>>]_vars

\* an unrecognized tag has been dispatched while hooks, a watcher and a
\* context were held
C5_Witness ==
    /\ last.op = "msg" /\ last.m.env /\ last.m.n >= 2 /\ last.m.tag \notin KnownTags
    /\ Populated
    /\ process # 0
    /\ ~raised
    /\ out = <<>>

\* the number of parts the handler of a tag reads, parts[0] included
Arity(tag) ==
    CASE tag = "hook_native_callback" -> NativeCallbackParts
      [] tag \in {"watcher_added", "native_on_load_callback"} -> 4
      [] tag \in {"hook_deleted", "new_thread", "class_loader_loading_class", "enumerate_java_methods_complete", "java_on_load_callback", "native_on_load_module_loading", "set_context_value", "set_data", "update_modules", "update_ranges", "watcher"} -> 3
      [] OTHER -> 2

\* no payload, fewer than 2 parts, or fewer parts than the tag's handler
\* reads
Malformed(m) == ~m.env \/ m.n < 2 \/ (m.tag \in KnownTags /\ m.n < Arity(m.tag))

\* C6 as claimed: the dispatch of a malformed message raises nothing out of
\* the dispatcher, publishes no event and changes no registry and no staged
\* field.
C6_Claim ==
    [][(last'.op = "msg" /\ Malformed(last'.m)) =>
        /\ ~raised'
        /\ out' = <<>>
        /\ UNCHANGED <<registries, staged>>]_vars

\* a hook_native_callback with too few parts has been dispatched: it raised
\* after the staged input was cleared
C6_Witness ==
    /\ Dispatched(last, "hook_native_callback")
    /\ last.m.n = 3
    /\ raised
    /\ temporary_input = ""
    /\ native_pending_args = SomeArgs

\* the keys the messages and requests of the model can name, per registry
PtrKeys == {ParsePtr(k) : k \in Names \cup PtrTexts}
NameKeys == Names \cup PtrTexts
WatcherKeys == {Hex(p) : p \in PtrKeys}
Requests == {"hook_java", "hook_native", "hook_native_on_load", "hook_java_on_load", "add_watcher", "remove_watcher"}

\* the operation l is the dispatch of hook_deleted for this kind and key
Deleted(l, kind, key) == Dispatched(l, "hook_deleted") /\ l.m.n >= 3 /\ l.m.kind = kind /\ l.m.key = key

\* the operation l is the dispatch of hook_deleted for a native hook at p,
\* the kind being any text but the three other kinds
DeletedNative(l, p) == Dispatched(l, "hook_deleted") /\ l.m.n >= 3 /\ l.m.kind \notin {"java", "native_on_load", "java_on_load"} /\ ParsePtr(l.m.key) = p

\* membership after a step: entered by an install, left by a removal, else
\* as before
Tracks(after, before, install, removal) == after = (IF install THEN TRUE ELSE IF removal THEN FALSE ELSE before)

\* C7 as claimed: a key enters a registry exactly when an install
\* acknowledgement for its kind and key is dispatched, leaves it exactly
\* when hook_deleted / watcher_removed for its kind and key is dispatched,
\* and nothing else changes a registry; the requests change none.
C7_Original ==
    [][/\ \A p \in PtrKeys : Tracks(p \in hooks', p \in hooks, Dispatched(last', "hook_native_callback") /\ Int16(last'.m.key) = p, Deleted(last', "native", Hex(p)))
       /\ \A k \in NameKeys : Tracks(k \in DOMAIN java_hooks', k \in DOMAIN java_hooks, Dispatched(last', "hook_java_callback") /\ last'.m.key = k, Deleted(last', "java", k))
       /\ \A k \in NameKeys : Tracks(k \in native_on_loads', k \in native_on_loads, Dispatched(last', "hook_native_on_load_callback") /\ last'.m.key = k, Deleted(last', "native_on_load", k))
       /\ \A k \in NameKeys : Tracks(k \in java_on_loads', k \in java_on_loads, Dispatched(last', "hook_java_on_load_callback") /\ last'.m.key = k, Deleted(last', "java_on_load", k))
       /\ \A w \in WatcherKeys : Tracks(w \in watchers', w \in watchers, Dispatched(last', "watcher_added") /\ Hex(ParsePtr(last'.m.key)) = w, Dispatched(last', "watcher_removed") /\ Hex(ParsePtr(last'.m.key)) = w)
       /\ last'.op \in Requests => UNCHANGED registries]_vars

\* C7 as amended: a key enters a registry exactly when an install
\* acknowledgement carrying every part its handler reads is dispatched for
\* it (for a native hook: one that is not an internal hook), and leaves it
\* exactly when hook_deleted / watcher_removed is dispatched for it (a
\* hook_deleted whose kind is none of java, native_on_load, java_on_load
\* removes a native hook) or, for the four hook registries but not for the
\* watchers, when reinitialize() is called; nothing else changes a
\* registry, and the requests change none.
C7_RegistriesFollowAcks ==
    [][LET re == last'.op = "reinitialize"
       IN  /\ \A p \in PtrKeys : Tracks(p \in hooks', p \in hooks /\ ~re, ~re /\ Dispatched(last', "hook_native_callback") /\ last'.m.n >= NativeCallbackParts /\ ~last'.m.internal /\ Int16(last'.m.key) = p, DeletedNative(last', p))
           /\ \A k \in NameKeys : Tracks(k \in DOMAIN java_hooks', k \in DOMAIN java_hooks /\ ~re, Dispatched(last', "hook_java_callback") /\ last'.m.key = k, Deleted(last', "java", k))
           /\ \A k \in NameKeys : Tracks(k \in native_on_loads', k \in native_on_loads /\ ~re, Dispatched(last', "hook_native_on_load_callback") /\ last'.m.key = k, Deleted(last', "native_on_load", k))
           /\ \A k \in NameKeys : Tracks(k \in java_on_loads', k \in java_on_loads /\ ~re, Dispatched(last', "hook_java_on_load_callback") /\ last'.m.key = k, Deleted(last', "java_on_load", k))
           /\ \A w \in WatcherKeys : Tracks(w \in watchers', w \in watchers, Dispatched(last', "watcher_added") /\ last'.m.n >= 4 /\ Hex(ParsePtr(last'.m.key)) = w, Dispatched(last', "watcher_removed") /\ Hex(ParsePtr(last'.m.key)) = w)
           /\ hooks' \subseteq PtrKeys /\ watchers' \subseteq WatcherKeys
           /\ (DOMAIN java_hooks' \cup native_on_loads' \cup java_on_loads') \subseteq NameKeys
           /\ last'.op \in Requests => UNCHANGED registries]_vars

\* a native on-load hook was requested while a java hook was requested and
\* not acknowledged yet: the request left the registries as they were, with
\* hooks installed by earlier acknowledgements
C7_Witness ==
    /\ last.op = "hook_native_on_load"
    /\ last.m.key \notin native_on_loads
    /\ java_pending_args = SomeArgs
    /\ java_hooks = EmptyDict
    /\ hooks # {}
    /\ watchers # {}
    /\ Len(out) = 2

\* the operation l is the dispatch of a well-formed removal
Removal(l) == (Dispatched(l, "hook_deleted") /\ l.m.n >= 3 /\ l.m.kind \in {"java", "native_on_load", "java_on_load", "native"}) \/ Dispatched(l, "watcher_removed")

\* C8 as claimed: the dispatch of a well-formed hook_deleted or
\* watcher_removed, also for a key that is not in the registry (as it is at
\* the second of two dispatches in a row), does not raise, leaves the key
\* out of the registry and the rest of it as it was, and publishes the
\* deletion event.
C8_Claim ==
    [][Removal(last') =>
        /\ ~raised'
        /\ \E i \in DOMAIN out' : out'[i].k = "event" /\ out'[i].name \in {"onDeleteHook", "onWatcherRemoved"}
        /\ hooks' = hooks \ (IF DeletedNative(last', ParsePtr(last'.m.key)) THEN {ParsePtr(last'.m.key)} ELSE {})
        /\ DOMAIN java_hooks' = DOMAIN java_hooks \ (IF last'.m.kind = "java" THEN {last'.m.key} ELSE {})
        /\ native_on_loads' = native_on_loads \ (IF last'.m.kind = "native_on_load" THEN {last'.m.key} ELSE {})
        /\ java_on_loads' = java_on_loads \ (IF last'.m.kind = "java_on_load" THEN {last'.m.key} ELSE {})
        /\ watchers' = watchers \ (IF last'.m.tag = "watcher_removed" THEN {Hex(ParsePtr(last'.m.key))} ELSE {})]_vars

\* hook_deleted for a java hook that is not in the registry has been
\* dispatched: it raised and published nothing
C8_Witness ==
    /\ Deleted(last, "java", "a")
    /\ raised
    /\ out = <<>>
    /\ native_on_loads # {}

\* the four hook registries and the context store are empty
HooksAndContextsEmpty == hooks = {} /\ java_hooks = EmptyDict /\ native_on_loads = {} /\ java_on_loads = {} /\ contexts = <<>>

\* C9 as claimed: after reinitialize() the four hook registries and the
\* context store are empty and context_tid is 0; the dispatch of a
\* set_context with the initial reason sets architecture, platform and
\* pointer size to those of the message and changes neither those
\* registries nor the context store, so that they remain empty.
C9_Claim ==
    [][/\ last'.op = "reinitialize" => (HooksAndContextsEmpty' /\ context_tid' = 0)
       /\ (Dispatched(last', "set_context") /\ last'.m.reason = ReasonInitial) =>
            /\ info'.arch = last'.m.info.arch
            /\ info'.platform = last'.m.info.platform
            /\ info'.pointer_size = last'.m.info.pointer_size
            /\ UNCHANGED <<hooks, java_hooks, native_on_loads, java_on_loads, contexts>>]_vars

\* reinitialize() has been called while a thread was stopped: its context
\* is still in the store, with no active thread
C9_Witness ==
    /\ last.op = "reinitialize"
    /\ contexts # <<>>
    /\ context_tid = 0
    /\ native_on_loads = {}

\* C10 as claimed: reinitialize() called with a device assigned leaves that
\* device assigned, and an attach or spawn called with a device assigned
\* does not fail for want of one.
C10_Original ==
    [][/\ (last'.op = "reinitialize" /\ device # "none") => device' = device
       /\ (last'.op \in {"attach", "spawn"} /\ device # "none" /\ last'.api = "ok") => ~raised']_vars

\* C10 as amended: reinitialize() clears the device reference, whatever was
\* assigned before; an attach or spawn called while no device is assigned
\* raises before it calls the engine or changes a field of the session,
\* and one called with a device assigned does not fail for want of one.
C10_ReinitClearsDevice ==
    [][/\ last'.op = "reinitialize" => device' = "none"
       /\ (last'.op \in {"attach", "spawn"} /\ device = "none") => (raised' /\ out' = <<>> /\ UNCHANGED lifecycle)
       /\ (last'.op \in {"attach", "spawn"} /\ device # "none" /\ last'.api = "ok") => ~raised']_vars

\* reinitialize() has been called on a session that had a device: none is
\* assigned now
C10_Witness ==
    /\ last.op = "reinitialize"
    /\ last.api = "dev"
    /\ device = "none"
    /\ process = 0

\* C11: the dispatch of a set_context whose reason is the initial one sets
\* architecture, platform, pointer size and java availability to those of
\* the message, publishes exactly one log event, the "injected" one with
\* the current pid, stores no context (also when the message carries one)
\* and changes neither context_tid nor a registry.
C11_InitialHandshake ==
    [][(Dispatched(last', "set_context") /\ last'.m.reason = ReasonInitial) =>
        /\ info' = last'.m.info
        /\ ~raised'
        /\ Cardinality(LogEvents(out')) = 1
        /\ \A i \in LogEvents(out') : out'[i] = Ev("onLogEvent", pid', "injected")
        /\ UNCHANGED <<contexts, context_tid, registries>>]_vars

\* the handshake of an attached process, carrying a context, has been
\* dispatched while no context was stored
C11_Witness ==
    /\ Dispatched(last, "set_context")
    /\ last.m.reason = ReasonInitial
    /\ last.m.hasctx
    /\ info = last.m.info
    /\ info.pointer_size = 8
    /\ pid # 0
    /\ contexts = <<>>
    /\ context_tid = 0
    /\ out[Len(out)] = Ev("onLogEvent", pid, "injected")

\* the operation l is the dispatch of a set_context with another reason
\* than the initial one
Hit(l) == Dispatched(l, "set_context") /\ l.m.reason # ReasonInitial

\* C12: context_tid is 0 after construction; reinitialize() sets it to 0;
\* the dispatch of a set_context with a non-initial reason while it is 0
\* sets it to the thread id of that message; nothing else changes it:
\* neither a hit while it is not 0, nor a release, nor any other operation.
C12_ActiveThread ==
    /\ context_tid = 0
    /\ [][IF last'.op = "reinitialize" THEN context_tid' = 0
          ELSE IF Hit(last') /\ context_tid = 0 THEN context_tid' = last'.m.tid
          ELSE context_tid' = context_tid]_vars

\* thread 1 is the active one, and a hit of thread 2 has been dispatched
\* after thread 1 was released
C12_Witness ==
    /\ Hit(last)
    /\ last.m.tid = 2
    /\ last.m.hasctx
    /\ context_tid = 1
    /\ contexts = <<Str(2)>>

\* the places of o that hold the engine's resume of process p
Resumes(o, p) == {i \in DOMAIN o : o[i] = Eng("resume", p)}

\* the places of o that hold any resume by the engine
AnyResume(o) == {i \in DOMAIN o : o[i].k = "engine" /\ o[i].name = "resume"}

\* C13 as claimed: a spawn() that succeeds has the engine resume the new
\* process exactly once, also when it is the second spawn() on the object;
\* an attach() has the engine resume nothing; resume_proc() and the resume
\* message have the engine resume only a spawned process that was not
\* resumed yet, and leave the session resumed.
C13_Claim ==
    [][/\ (last'.op = "spawn" /\ last'.api = "ok" /\ ~raised') => (Cardinality(Resumes(out', last'.tid)) = 1 /\ AnyResume(out') = Resumes(out', last'.tid))
       /\ last'.op = "attach" => AnyResume(out') = {}
       /\ (last'.op = "resume_proc" \/ Dispatched(last', "resume")) =>
            /\ Cardinality(AnyResume(out')) <= 1
            /\ AnyResume(out') # {} => (spawned /\ ~resumed /\ AnyResume(out') = Resumes(out', pid))
            /\ spawned => resumed']_vars

\* a second spawn() has succeeded on a session whose first process was
\* resumed: the engine was not asked to resume the new process
C13_Witness ==
    /\ last.op = "spawn"
    /\ last.api = "ok"
    /\ ~raised
    /\ pid = last.tid
    /\ spawned /\ resumed
    /\ AnyResume(out) = {}
    /\ \E i \in DOMAIN out : out[i] = Ev("onScriptLoaded", 0, "")

\* what can go wrong with the engine in load_script
EngineFails == {"create_script", "load", "init"}

\* C14 as claimed: load_script called on an attached session returns 0 when
\* every step succeeds, returns 1 without raising when the engine fails at
\* script creation, load or initialization, and raises when the payload
\* source file is missing.
C14_Claim ==
    (last.op = "load_script" /\ process # 0) =>
        /\ last.api = "ok" => (~raised /\ ret = "0")
        /\ last.api \in EngineFails => (~raised /\ ret = "1")
        /\ last.api = "nocore" => raised

\* the engine failed to load the script: the message box was shown and the
\* call raised
C14_Witness ==
    /\ last.op = "load_script"
    /\ last.api = "load"
    /\ process # 0
    /\ raised
    /\ out[Len(out)] = Ev("message_box", 0, "error")
    /\ script = "unloaded"

\* the places of o that hold an entry with this name, failed or not
Named(o, name) == {i \in DOMAIN o : o[i].name = name}

\* C15 as claimed: an attach or spawn called with no device, or in which
\* the engine fails to attach or to spawn, raises, publishes no "process
\* attached" event, does not load the payload, tries to attach at most once
\* and leaves the pid of the session as it was.
C15_Claim ==
    [][(last'.op \in {"attach", "spawn"} /\ (device = "none" \/ last'.api \in {"attach", "spawn"})) =>
        /\ raised'
        /\ Named(out', "onProcessAttached") = {}
        /\ Named(out', "create_script") \cup Named(out', "load") \cup Named(out', "init") = {}
        /\ Cardinality(Named(out', "attach")) <= 1
        /\ pid' = pid]_vars

\* a spawn() on a fresh session in which the engine created the process
\* and then failed to attach to it: the pid of the session is the new one
C15_Witness ==
    /\ last.op = "spawn"
    /\ last.api = "attach"
    /\ raised
    /\ process = 0
    /\ pid = last.tid
    /\ ~spawned
    /\ out = <<Eng("spawn", pid), Failed(Eng("attach", pid))>>

\* the view holds a fetched region
Fetched(R) == R.base > 0 /\ R.tail > R.base

\* the places of o that hold an invocation of the payload
Invocations(o) == {i \in DOMAIN o : o[i].k \in {"api", "failed"} /\ o[i].name \in {"getRange", "readBytes"}}

\* C16 as claimed: when the view holds a fetched region [base, tail), an
\* init_with_address with an address a, base <= a < tail, returns -1, sets
\* start_offset to a - base, issues neither getRange nor readBytes and
\* leaves base, size, tail and the data as they were.
C16_Claim ==
    [][(last'.op = "init_with_address" /\ Fetched(range) /\ range.base <= last'.tid /\ last'.tid < range.tail) =>
        /\ ret' = "-1"
        /\ range'.start_offset = last'.tid - range.base
        /\ Invocations(out') = {}
        /\ range'.base = range.base /\ range'.size = range.size /\ range'.tail = range.tail
        /\ range'.data = range.data]_vars

\* the view holds a region with data, and an init_with_address with its
\* base fetches the region again
C16_Witness ==
    /\ Idle
    /\ Fetched(range)
    /\ range.data # <<>>
    /\ LET res == InitWithAddressF(range, Cur, range.base, 0, 0, TRUE, <<>>, 0, 0)
       IN  res.L.ret = "0" /\ Invocations(res.L.out) # {}

\* the hook h of the payload is a native hook with known original bytes
\* whose address, thumb bit stripped, lies in [base, tail) of R
NativeInRange(R, h) == h.nativePtr # 1 /\ h.bytes > 0 /\ R.base <= StripThumb(h.nativePtr) /\ StripThumb(h.nativePtr) < R.tail

\* the data of R holds the original bytes of h at its offset
Restored(R, h) == \A j \in 1..h.bytes : StripThumb(h.nativePtr) - R.base + j <= Len(R.data) /\ R.data[StripThumb(h.nativePtr) - R.base + j] = "o"

\* C17 as claimed: whatever the view holds, an init_with_address with
\* require_data that returns 0 leaves, for every native hook of the
\* payload with known bytes in [base, tail), the original bytes of the hook
\* in the data at the offset of the hook, and the data as long as the size.
C17_Claim ==
    \A a \in Addrs, e \in Extents, x \in Answers :
        LET res == InitWithAddressF(range, Cur, a, e[1], e[2], x[1], x[2], x[3], x[4])
        IN  (x[1] /\ res.L.ret = "0") =>
                /\ Len(res.r.data) = res.r.size
                /\ \A i \in DOMAIN x[2] : NativeInRange(res.r, x[2][i]) => Restored(res.r, x[2][i])

\* an init_with_address with require_data has returned 0 and the first
\* byte of the region, where a hook sits, holds the trap
C17_Witness ==
    /\ last.op = "init_with_address"
    /\ last.api = "data"
    /\ ret = "0"
    /\ Len(range.data) = range.size
    /\ range.data[1] = "t"

\* C18: the dispatch of memoryscan_result publishes exactly one event, a
\* memory-scan result, which carries the empty list when the second field
\* is empty and the list the field decodes to when it encodes one; it
\* raises nothing and changes no registry.
C18_MemoryScanResult ==
    [][(Dispatched(last', "memoryscan_result") /\ (last'.m.key = "" \/ ~JsonFails(last'.m.key))) =>
        /\ ~raised'
        /\ out' = <<Ev("onMemoryScanResult", 0, ToString(IF last'.m.key = "" THEN <<>> ELSE JsonLoads(last'.m.key)))>>
        /\ last'.m.key = "[1,2]" => out'[1].arg = ToString(<<1, 2>>)
        /\ UNCHANGED <<registries, staged, ctxvars>>]_vars

\* a memoryscan_result with an empty second field has been dispatched
\* while hooks were installed
C18_Witness ==
    /\ Dispatched(last, "memoryscan_result")
    /\ last.m.key = ""
    /\ out = <<Ev("onMemoryScanResult", 0, ToString(<<>>))>>
    /\ hooks # {}
    /\ java_hooks # EmptyDict

\* the places of o that hold the add-native-hook event
AddNativeEvents(o) == {i \in DOMAIN o : o[i].k = "event" /\ o[i].name = "onAddNativeHook"}

StepRank(e) ==
    CASE e.k = "engine" /\ e.name \in {"unload", "detach", "kill"} -> 1
      [] e.k = "api" /\ e.name = "_detach" -> 1
      [] e.k = "engine" /\ e.name = "spawn" -> 2
      [] e.k = "engine" /\ e.name = "attach" -> 3
      [] e.k = "event" /\ e.name = "onProcessAttached" -> 4
      [] e.k = "engine" /\ e.name = "create_script" -> 5
      [] e.k = "engine" /\ e.name = "load" -> 6
      [] e.k = "engine" /\ e.name = "init" -> 7
      [] e.k = "api" /\ e.name = "evaluateFunction" -> 8
      [] e.k = "engine" /\ e.name = "resume" -> 9
      [] e.k = "event" /\ e.name = "onScriptLoaded" -> 10
      [] e.k = "event" /\ e.name = "plugins" -> 11
      [] OTHER -> 0

\* the steps of o that the order names are in the order
InOrder(o) == \A i, j \in DOMAIN o : (i < j /\ StepRank(o[i]) # 0 /\ StepRank(o[j]) # 0) => StepRank(o[i]) <= StepRank(o[j])

\* o holds exactly one step of this rank
Once(o, r) == Cardinality({i \in DOMAIN o : StepRank(o[i]) = r}) = 1

\* the steps of a successful attach or spawn, but for the resume: in the
\* order, a detach first when a process was attached, then one attach, one
\* "process attached" event with the pid, one create, one load, one init
\* carrying the spawned flag, one "script loaded" and one notification of
\* the plugins
StepsButResume(o, op, p, before) ==
    /\ InOrder(o)
    /\ before # 0 => \E i \in DOMAIN o : o[i] = Eng("detach", before)
    /\ \A r \in {3, 4, 5, 6, 7, 10, 11} : Once(o, r)
    /\ \E i \in DOMAIN o : o[i] = Ev("onProcessAttached", p, "")
    /\ \E i \in DOMAIN o : o[i] = Eng("init", IF op = "spawn" THEN 1 ELSE 0)

\* C20 as claimed: a successful attach or spawn makes the observable steps
\* in the order detach of the process attached before, engine attach,
\* "process attached" event, script create and load, init carrying the
\* spawned flag, user-script evaluation if any, resume of the process when
\* it was spawned (and of none when it was attached), "script loaded"
\* event, notification of the plugins.
C20_Claim ==
    [][(last'.op \in {"attach", "spawn"} /\ ~raised') =>
        /\ StepsButResume(out', last'.op, last'.tid, process)
        /\ last'.op = "spawn" => (Once(out', 9) /\ \E i \in DOMAIN out' : out'[i] = Eng("resume", last'.tid))
        /\ last'.op = "attach" => ~Once(out', 9)]_vars

\* a spawn() has succeeded on a session that had a process attached: every
\* step was made in the order, but the engine did not resume the process
C20_Witness ==
    /\ last.op = "spawn"
    /\ ~raised
    /\ \E i \in DOMAIN out : out[i].k = "engine" /\ out[i].name = "detach"
    /\ \E i \in DOMAIN out : out[i].k = "api" /\ out[i].name = "evaluateFunction"
    /\ InOrder(out)
    /\ Once(out, 10)
    /\ ~Once(out, 9)

\* C21: a detach() called with a script handle and a process handle makes,
\* in this order, one '_detach' command through dwarf_api, one unload of the
\* payload, one detach of the process and, only when the session is marked
\* spawned, one kill of the session pid; a process-not-found answer to the
\* kill is swallowed; with no script handle no '_detach' command is sent
\* and nothing is unloaded, and with no process handle nothing is done.
C21_DetachOrder ==
    [][last'.op = "detach" =>
        /\ (script # "none" /\ process # 0) =>
            /\ Cardinality(Named(out', "_detach")) = 1
            /\ Cardinality(Named(out', "unload")) = 1
            /\ Cardinality(Named(out', "detach")) = 1
            /\ \A i \in Named(out', "_detach"), j \in Named(out', "unload"), n \in Named(out', "detach") :
                /\ i < j /\ j < n
                /\ out'[i].k \in {"api", "failed"}
                /\ out'[j].k = "engine"
                /\ out'[n] = Eng("detach", process)
                /\ \A x \in Named(out', "kill") : n < x /\ out'[x].tid = pid
        /\ Cardinality(Named(out', "kill")) = (IF process # 0 /\ spawned THEN 1 ELSE 0)
        /\ last'.api \in {"ok", "notfound"} => ~raised'
        /\ script = "none" => (Named(out', "_detach") = {} /\ Named(out', "unload") = {})
        /\ process = 0 => out' = <<>>
        /\ UNCHANGED <<device, process, pid, spawned, resumed>>]_vars

\* a detach() of a spawned session with its payload loaded, in which the
\* engine did not find the process to kill: nothing was raised
C21_Witness ==
    /\ last.op = "detach"
    /\ last.api = "notfound"
    /\ ~raised
    /\ spawned
    /\ Len(out) = 4
    /\ out[1] = Api(0, "_detach", "int")
    /\ out[2] = Eng("unload", pid)
    /\ out[3] = Eng("detach", process)
    /\ out[4] = Failed(Eng("kill", pid))

\* the operation l is the dispatch of release_js on a session with a
\* process attached and the payload loaded
ReleaseJs(l) == Dispatched(l, "release_js") /\ ToInt(l.m.key) # 0 /\ process # 0 /\ script = "loaded"

ThreadMsgs(t) == {m \in MsgHit : m.tid = t} \cup {m \in MsgRelease : m.key = Str(t)}

\* the thread a hit or release message is about
ThreadOf(m) == IF m.tag = "release" THEN ToInt(m.key) ELSE m.tid

\* from the store as it is, a message of one thread and a message of
\* another leave the same thread ids stored in either order; as this holds
\* of every store that can be reached, it holds of every interleaving of
\* two histories
Commute ==
    \A t, u \in Tids : t # u => \A m \in ThreadMsgs(t), n \in ThreadMsgs(u) :
        Elems(ContextsAfter(ContextsAfter(contexts, m), n)) = Elems(ContextsAfter(ContextsAfter(contexts, n), m))

\* the dispatch of a hit or release of a thread leaves every other thread
\* stored or not as it was, and its own thread stored or not as the
\* message alone tells
OwnThreadOnly ==
    (Hit(last') \/ Dispatched(last', "release")) => \A t \in Tids :
        IF t # ThreadOf(last'.m) THEN Stored(contexts', t) = Stored(contexts, t)
        ELSE IF last'.m.tag = "release" THEN ~Stored(contexts', t)
        ELSE IF last'.m.hasctx THEN Stored(contexts', t)
        ELSE Stored(contexts', t) = Stored(contexts, t)

\* what a release of every thread has sent: at most one routing
\* notification and one release invocation per thread id listed when it
\* began, the invocation right after the notification, nothing for another
SnapshotOnly ==
    \A t \in 0..MaxTid :
        /\ ~Stored(broadcast.snap, t) => (Sends(broadcast.sent, "post", t) = {} /\ Sends(broadcast.sent, "api", t) = {})
        /\ Cardinality(Sends(broadcast.sent, "post", t)) <= 1
        /\ Cardinality(Sends(broadcast.sent, "api", t)) <= 1
        /\ \A i \in Sends(broadcast.sent, "api", t) : i - 1 \in Sends(broadcast.sent, "post", t) /\ broadcast.sent[i].name = "release"

\* the release of every thread has walked its list to the end
WalkedAll == broadcast.pc = "done" /\ ~SomeFailed(broadcast.sent)

C24_Claim ==
    contexts # <<>> =>
        /\ CurrentContext # "None"
        /\ (last.op = "dwarf_api" /\ last.tid = 0 /\ last.api # "release" /\ process # 0 /\ script = "loaded") =>
            \A i \in DOMAIN out : out[i].k \in {"api", "failed"} /\ out[i].name = last.api => Stored(contexts, out[i].tid)

\* thread 1 was hit first and released while thread 2 stays stopped: a
\* readBytes with tid 0 has been routed to thread 1, and current_context()
\* is None
C24_Witness ==
    /\ last.op = "dwarf_api" /\ last.tid = 0 /\ last.api = "readBytes"
    /\ context_tid = 1
    /\ contexts = <<Str(2)>>
    /\ CurrentContext = "None"
    /\ out = <<Post(Str(1)), Api(1, "readBytes", "int")>>

\* the places of o where the engine was asked to kill a process
Kills(o) == {i \in DOMAIN o : o[i].k \in {"engine", "failed"} /\ o[i].name = "kill"}

\* C25 as claimed: whatever attach, spawn and detach calls were made, the
\* engine is asked to kill only a process that a spawn() of this session
\* created, never one that was attached to with attach().
C25_Claim == \A i \in Kills(out) : out[i].tid \in SpawnedPids

\* a detach() after spawn(1) and then attach(2) with no reinitialize in
\* between: the engine was asked to kill process 2
C25_Witness ==
    /\ last.op = "detach"
    /\ process = 2 /\ pid = 2
    /\ spawned
    /\ device # "none"
    /\ \E i \in Kills(out) : out[i] = Eng("kill", 2)

\* C26 as claimed: whatever the order of the hook_java requests and of the
\* hook_java_callback acknowledgements, the java hook registered under a
\* name carries the condition and logic staged with the request for that
\* name, or none; arguments staged for one name never end up on the hook
\* of another.
C26_Claim == \A k \in DOMAIN java_hooks : java_hooks[k] \in {NoArgs, ArgsOf(k)}

\* two requests were made before either was acknowledged: the hook under
\* "a" carries what was staged for "b", and the hook under "b" nothing
C26_Witness ==
    /\ Dispatched(last, "hook_java_callback")
    /\ DOMAIN java_hooks = JavaNames
    /\ java_hooks["a"] = ArgsOf("b")
    /\ java_hooks["b"] = NoArgs
    /\ java_pending_args = NoArgs

\* the call of init_with_address that acted last got no region for its
\* address: getRange was not answered, or answered with nothing
LookupFailed == (\A i \in DOMAIN out : ~(out[i].k = "api" /\ out[i].name = "getRange")) \/ RegionsOf(last.tid) = {}

\* C27 as claimed: after any init_with_address and invalidate calls, an
\* init_with_address that returns 0 or -1 leaves a buffer that is not
\* empty and as long as size, with size = tail - base, the address asked
\* for in [base, tail) and start_offset = start_address - base; one that
\* returns 1 found no region or leaves an empty buffer.
C27_Claim ==
    last.op = "init_with_address" =>
        /\ ret \in {"0", "-1"} =>
            /\ range.data # <<>>
            /\ Len(range.data) = range.size
            /\ range.size = range.tail - range.base
            /\ range.start_address = last.tid
            /\ range.base <= range.start_address /\ range.start_address < range.tail
            /\ range.start_offset = range.start_address - range.base
        /\ ret = "1" => (LookupFailed \/ range.data = <<>>)

\* after a fetch whose read failed, an init_with_address inside the region
\* has returned -1 over an empty buffer
C27_Witness ==
    /\ last.op = "init_with_address"
    /\ ret = "-1"
    /\ range.data = <<>>
    /\ range.base > 0
    /\ range.base < last.tid /\ last.tid < range.tail
    /\ out = <<>>

====
